---- MODULE Spec2Model ----
(***************************************************************************)
(* Model of the three scripts of the repository:                           *)
(*   pink_product_tagger.py        colour classifier and tagging pipeline  *)
(*   shopify-metafields-transfer.py export / import of metafields          *)
(*   metafields_to_csv.py          flattening of a snapshot to CSV         *)
(* Text is modelled as a sequence of one-character strings.                *)
(***************************************************************************)
EXTENDS Integers, Sequences, FiniteSets, TLC

VARIABLES
    hex_color,      \* is_pink: the argument
    pcPink,         \* is_pink: "input" | "edited" | "returned"
    pink,           \* is_pink: the value returned ("none" before the call)
    program,        \* the entry point that runs: "export_all" | "tagger"
    source,         \* the source store as its API pages it, per resource kind
    status,         \* per collector: "idle" | "running" | "returned" | "raised"
    after,          \* running collector: cursor of the next request
    collected,      \* running collector: the accumulator
    fed,            \* per collector: the requests answered with a page
    returned,       \* per collector: the list its caller received
    pcMain,         \* position of the calling program
    snapshot,       \* export_all: the document written
    payload,        \* import: the snapshot document read
    target,         \* import: the target store
    pcImport,       \* import: position in import_metafields
    needed,         \* import: the definitions needed, per owner type
    existing,       \* import: identifiers of the definitions fetched
    pending,        \* import: needed triples the create loop has left
    idx,            \* import: index of the record the value loop is at
    total,          \* import: the three counters
    reported,       \* import: the counts logged by the finished runs
    dry_run,        \* import and tagger: the --dry-run flag
    overwrite,      \* import: the --overwrite flag
    calls,          \* import and tagger: the requests sent, in order
    faults,         \* import and tagger: the kinds of failed request
    csv,            \* tagger: the rows of the CSV file
    upd,            \* tagger: index in pink_products of update_product_tags
    updated_count,  \* tagger: updated_count of update_product_tags
    artifacts,      \* tagger: what each finished run wrote and sent
    data,           \* metafields_to_csv: the products of the document read
    headers,        \* metafields_to_csv: the header row written
    written,        \* metafields_to_csv: the rows written, as cell lists
    pcCsv           \* metafields_to_csv: position in export_to_csv

pinkVars == <<hex_color, pcPink, pink>>

collectVars == <<program, source, status, after, collected, fed, returned,
                 pcMain, snapshot>>

importVars == <<payload, target, pcImport, needed, existing, pending, idx,
                total, reported>>

runVars == <<dry_run, overwrite, calls, faults>>

tagVars == <<csv, upd, updated_count, artifacts>>

csvVars == <<data, headers, written, pcCsv>>

notPinkVars == <<collectVars, importVars, runVars, tagVars, csvVars>>

notCollectVars == <<pinkVars, importVars, runVars, tagVars, csvVars>>

notCollectTagVars == <<pinkVars, importVars, csvVars>>

notImportVars == <<pinkVars, collectVars, tagVars, csvVars>>

notCsvVars == <<pinkVars, collectVars, importVars, runVars, tagVars>>

vars == <<pinkVars, collectVars, importVars, runVars, tagVars, csvVars>>

(***************************************************************************)
(* Text helpers                                                            *)
(***************************************************************************)

\* Python str.lstrip(ch): every leading occurrence of ch is removed.
RECURSIVE lstrip(_, _)
lstrip(s, ch) ==
    IF s # <<>> /\ Head(s) = ch THEN lstrip(Tail(s), ch) ELSE s

HexDigits == <<"0", "1", "2", "3", "4", "5", "6", "7",
               "8", "9", "A", "B", "C", "D", "E", "F">>

LowerHexDigits == <<"0", "1", "2", "3", "4", "5", "6", "7",
                    "8", "9", "a", "b", "c", "d", "e", "f">>

IsHexDigit(c) ==
    \E i \in 1..16 : HexDigits[i] = c \/ LowerHexDigits[i] = c

HexVal(c) ==
    (CHOOSE i \in 1..16 : HexDigits[i] = c \/ LowerHexDigits[i] = c) - 1

IsSpace(c) == c = " "

\* Python int(s, 16) on a two-character slice: surrounding whitespace is
\* stripped and one leading sign is accepted before the digits; anything
\* else raises ValueError (ok = FALSE).
int16(s) ==
    LET a == s[1]
        b == s[2]
    IN  IF IsHexDigit(a) /\ IsHexDigit(b)
            THEN [ok |-> TRUE, val |-> 16 * HexVal(a) + HexVal(b)]
        ELSE IF a = "+" /\ IsHexDigit(b)
            THEN [ok |-> TRUE, val |-> HexVal(b)]
        ELSE IF a = "-" /\ IsHexDigit(b)
            THEN [ok |-> TRUE, val |-> 0 - HexVal(b)]
        ELSE IF IsSpace(a) /\ IsHexDigit(b)
            THEN [ok |-> TRUE, val |-> HexVal(b)]
        ELSE IF IsHexDigit(a) /\ IsSpace(b)
            THEN [ok |-> TRUE, val |-> HexVal(a)]
        ELSE [ok |-> FALSE, val |-> 0]

\* "%02X" of a byte: the two upper-case hex digits of a colour component.
Hex2(byte) == <<HexDigits[(byte \div 16) + 1], HexDigits[(byte % 16) + 1]>>

(***************************************************************************)
(* The source store and the transport                                      *)
(***************************************************************************)

NoCursor == 0

\* Bound: the most pages a resource kind of the store spans.
MaxPages == 2

\* Bound: the most requests one collector run is followed for.
MaxRequests == 3

Kinds == {"products", "collections"}

Collectors == {"export_products_metafields", "export_collections_metafields",
               "get_products_with_metafields"}

\* The block of the response each collector's query asks for.
BlockOf(c) ==
    IF c = "export_collections_metafields" THEN "collections" ELSE "products"

T_custom == <<"c", "u", "s", "t", "o", "m">>
T_cor == <<"c", "o", "r">>
T_tamanho == <<"t", "a", "m">>
T_seo == <<"s", "e", "o">>
T_verao == <<"v", "e", "r", "a", "o">>
T_pinkHex == <<"#", "F", "F", "C", "0", "C", "B">>
T_redHex == <<"F", "F", "0", "0", "0", "0">>

\* A metafield node of the API: {id, namespace, key, type, value}.
MetafieldNode(id, ns, key, type, value) ==
    [id |-> id, namespace |-> ns, key |-> key, type |-> type, value |-> value]

\* The j-th node of page i of a resource kind.  Nodes of one kind differ in
\* id and handle; the first of a page carries tags and metafields (two
\* entries with key "cor", one outside the custom namespace), the second
\* carries none.
StoreNode(kind, i, j) ==
    [id |-> <<kind, i, j>>,
     handle |-> <<IF kind = "products" THEN "p" ELSE "c",
                  HexDigits[i + 1], HexDigits[j + 1]>>,
     title |-> <<"T", HexDigits[i + 1], HexDigits[j + 1]>>,
     tags |-> IF j = 1 THEN <<T_verao>> ELSE <<>>,
     metafields |->
        IF j = 1
        THEN <<MetafieldNode(<<kind, i, j, 1>>, T_seo, T_cor, "color", T_redHex),
               MetafieldNode(<<kind, i, j, 2>>, T_custom, T_tamanho,
                             "single_line_text_field", <<"M">>),
               MetafieldNode(<<kind, i, j, 3>>, T_custom, T_cor, "color",
                             T_pinkHex)>>
        ELSE <<>>]

\* The record lists a page may hold: none, one or two records.
PageEdges(kind, i) ==
    {<<>>, <<StoreNode(kind, i, 1)>>,
     <<StoreNode(kind, i, 1), StoreNode(kind, i, 2)>>}

\* A page of the API: its record list and its pageInfo.
Page(edges, hasNextPage, endCursor) ==
    [edges |-> edges,
     pageInfo |-> [hasNextPage |-> hasNextPage, endCursor |-> endCursor]]

\* The first n pages of a kind that spans more: each reports hasNextPage,
\* and its endCursor names the page (i) or is missing.
RECURSIVE InnerPages(_, _)
InnerPages(kind, n) ==
    IF n = 0 THEN {<<>>}
    ELSE {Append(l, Page(e, TRUE, cur)) :
            l \in InnerPages(kind, n - 1),
            e \in PageEdges(kind, n),
            cur \in {n, NoCursor}}

\* A resource kind as the API pages it: every page but the last reports
\* hasNextPage.
PageLists(kind) ==
    UNION {{Append(l, Page(e, FALSE, n)) :
                l \in InnerPages(kind, n - 1), e \in PageEdges(kind, n)} :
           n \in 1..MaxPages}

\* The page the API serves for a request: the first one without a cursor,
\* else the one after the page the cursor names.
PageServed(kind, cursor) ==
    IF cursor = NoCursor THEN 1 ELSE cursor + 1

\* The metafields(...) connection of a node as the query selects it: the
\* tagger's query asks for namespace "custom" only.
RECURSIVE SelectSeq2(_, _)
SelectSeq2(s, ns) ==
    IF s = <<>> THEN <<>>
    ELSE IF Head(s).namespace = ns
         THEN <<Head(s)>> \o SelectSeq2(Tail(s), ns)
         ELSE SelectSeq2(Tail(s), ns)

MetafieldsServed(c, node) ==
    IF c = "get_products_with_metafields"
    THEN SelectSeq2(node.metafields, T_custom)
    ELSE node.metafields

(***************************************************************************)
(* Paginated collectors                                                    *)
(***************************************************************************)

\* ", ".join(tags)
RECURSIVE JoinTags(_)
JoinTags(tags) ==
    IF tags = <<>> THEN <<>>
    ELSE IF Len(tags) = 1 THEN tags[1]
    ELSE tags[1] \o <<",", " ">> \o JoinTags(Tail(tags))

\* The value of the first metafield whose key is "cor" ("" when none).
RECURSIVE CustomCor(_)
CustomCor(mfs) ==
    IF mfs = <<>> THEN <<>>
    ELSE IF Head(mfs).key = T_cor THEN Head(mfs).value
    ELSE CustomCor(Tail(mfs))

\* The record an export collector appends for a node.
ExportRecord(node, mfs) ==
    [id |-> node.id, handle |-> node.handle, title |-> node.title,
     metafields |->
        [k \in 1..Len(mfs) |->
            [namespace |-> mfs[k].namespace, key |-> mfs[k].key,
             type |-> mfs[k].type, value |-> mfs[k].value]]]

\* The record the tagger's collector appends for a node.
TaggerRecord(node, mfs) ==
    [id |-> node.id, handle |-> node.handle, title |-> node.title,
     tags |-> JoinTags(node.tags), custom_cor |-> CustomCor(mfs)]

CollectRecord(c, node) ==
    IF c = "get_products_with_metafields"
    THEN TaggerRecord(node, MetafieldsServed(c, node))
    ELSE ExportRecord(node, MetafieldsServed(c, node))

\* The records of one page, last edge first.
PageRecordsReversed(c, page) ==
    [k \in 1..Len(page.edges) |->
        CollectRecord(c, page.edges[Len(page.edges) + 1 - k])]

\* The records of one page, in page order.
PageRecords(c, page) ==
    [k \in 1..Len(page.edges) |-> CollectRecord(c, page.edges[k])]

\* The collector c returns `result` to its caller, which goes on:
\* export_all calls the collections collector after the products one and
\* writes the snapshot after both; the tagger's main goes on with the list.
Return(c, result) ==
    /\ returned' = [returned EXCEPT ![c] = result]
    /\ after' = NoCursor
    /\ collected' = <<>>
    /\ IF c = "export_products_metafields"
       THEN /\ status' = [status EXCEPT
                   ![c] = "returned",
                   !["export_collections_metafields"] = "running"]
            /\ pcMain' = "collecting"
       ELSE IF c = "export_collections_metafields"
       THEN /\ status' = [status EXCEPT ![c] = "returned"]
            /\ pcMain' = "write"
       ELSE /\ status' = [status EXCEPT ![c] = "returned"]
            /\ pcMain' = "fetched"

\* A request of the running collector c is about to be sent.
Requesting(c) ==
    /\ pcMain = "collecting"
    /\ status[c] = "running"
    /\ Len(fed[c]) < MaxRequests

\* One turn of the while-loop in which execute returns a page: its records
\* are appended; with hasNextPage the cursor becomes the page's endCursor
\* and the loop goes on, otherwise the collector returns.  `after` is sent
\* only when it is truthy, so a missing endCursor asks for the first page.
FetchPage ==
    /\ \E c \in Collectors :
        /\ Requesting(c)
        /\ LET kind == BlockOf(c)
               i == PageServed(kind, after)
               page == source[kind][i]
               all == collected \o PageRecords(c, page)
           IN  /\ i \in 1..Len(source[kind])
               /\ fed' = [fed EXCEPT
                      ![c] = Append(@, [after |-> after, page |-> page])]
               /\ IF page.pageInfo.hasNextPage
                  THEN /\ after' = page.pageInfo.endCursor
                       /\ collected' = all
                       /\ UNCHANGED <<status, returned, pcMain>>
                  ELSE Return(c, all)
    /\ UNCHANGED <<program, source, snapshot, notCollectVars>>

\* One turn in which execute returns a body without the data block (a
\* GraphQL error, "data": null): the loop breaks and the collector returns
\* what it has.
FetchNoBlock ==
    /\ \E c \in Collectors :
        /\ Requesting(c)
        /\ Return(c, collected)
    /\ UNCHANGED <<program, source, fed, snapshot, notCollectVars>>

\* One turn in which execute returns None (transport failure):
\* body.get raises AttributeError, which no caller catches for good (the
\* tagger's main logs it and raises it again).
FetchFailure ==
    /\ \E c \in Collectors :
        /\ Requesting(c)
        /\ status' = [status EXCEPT ![c] = "raised"]
    /\ pcMain' = "raised"
    /\ UNCHANGED <<program, source, after, collected, fed, returned,
                   snapshot, notCollectVars>>

\* export_all writes the snapshot document.
WriteSnapshot ==
    /\ program = "export_all"
    /\ pcMain = "write"
    /\ snapshot' = [products |-> returned["export_products_metafields"],
                    collections |-> returned["export_collections_metafields"]]
    /\ pcMain' = "done"
    /\ UNCHANGED <<program, source, status, after, collected, fed, returned,
                   notCollectVars>>

(***************************************************************************)
(* Import: import_metafields against a target store                        *)
(***************************************************************************)

T_shopify == <<"s", "h", "o", "p", "i", "f", "y">>
T_shopifyApp == T_shopify \o <<"-", "-", "a">>
T_shopifyDash == T_shopify \o <<"-", "a">>
T_key == <<"k">>
T_a == <<"a">>
T_b == <<"b">>
T_n == <<"n">>

DefaultType == "single_line_text_field"

\* A metafield entry of the snapshot: {namespace, key, type, value}.
Entry(ns, key, type, value) ==
    [namespace |-> ns, key |-> key, type |-> type, value |-> value]

\* An owner record of the snapshot.
Owner(id, handle, mfs) ==
    [id |-> id, handle |-> handle, title |-> <<"T">> \o handle,
     metafields |-> mfs]

E_cor == Entry(T_custom, T_cor, "color", T_pinkHex)
E_shopify == Entry(T_shopify, T_key, DefaultType, <<"1">>)
E_app == Entry(T_shopifyApp, T_key, DefaultType, <<"2">>)
E_dash == Entry(T_shopifyDash, T_key, DefaultType, <<"3">>)

\* What an entry without a "type" key carries in its type field.
NoType == "absent"

\* A second entry for custom.cor, written without a type.
E_corUntyped == Entry(T_custom, T_cor, NoType, T_redHex)

\* Product records a snapshot is drawn from: a handle every target knows,
\* with a plain and a restricted entry; a handle only some targets know,
\* with an entry in a "shopify--" namespace; a record without handle.
P_known == Owner(1, T_a, <<E_cor, E_shopify>>)
P_other == Owner(2, T_b, <<E_app>>)
P_noHandle == Owner(3, <<>>, <<E_cor>>)

\* The product lists of a snapshot are the beginnings of these.
ProductLists ==
    {<<P_known, P_other, P_noHandle, P_known>>,
     <<P_noHandle, P_known, P_other, P_noHandle>>}

\* Collection lists a snapshot is drawn from: none; one collection the
\* target knows; one it knows, without metafields, and one it does not
\* know, with an entry whose namespace only resembles a restricted one.
CollectionLists ==
    {<<>>,
     <<Owner(5, T_a, <<E_cor>>)>>,
     <<Owner(6, T_a, <<>>), Owner(7, T_n, <<E_dash>>)>>}

\* A collection list holding custom.cor twice, as a color and without a
\* type.
TwoTypeCollections == <<Owner(8, T_a, <<E_cor, E_corUntyped>>)>>

\* Bound: the most product records of a snapshot.
MaxProducts == 2

RECURSIVE SeqsUpTo(_, _)
SeqsUpTo(S, n) ==
    IF n = 0 THEN {<<>>}
    ELSE SeqsUpTo(S, n - 1)
            \cup {Append(s, x) : s \in {t \in SeqsUpTo(S, n - 1) : Len(t) = n - 1},
                                 x \in S}

Payloads ==
    {[products |-> SubSeq(l, 1, n), collections |-> c] :
        l \in ProductLists, n \in 0..MaxProducts, c \in CollectionLists}

\* The snapshots above, and the same with the two-type collection list.
DefinitionPayloads ==
    Payloads \cup {[products |-> p.products, collections |-> TwoTypeCollections] :
                      p \in Payloads}

OwnerTypes == {"PRODUCT", "COLLECTION"}

KindOf(ownerType) == IF ownerType = "PRODUCT" THEN "products" ELSE "collections"

\* What a target may hold for custom.cor of products: nothing, or the
\* definition and a value of product "a" other than the snapshot's.
HeldCor ==
    {[definitions |-> {}, values |-> {}],
     [definitions |-> {[namespace |-> T_custom, key |-> T_cor,
                        type |-> "color"]},
      values |-> {[ownerId |-> <<"products", T_a>>, namespace |-> T_custom,
                   key |-> T_cor, value |-> T_redHex, type |-> "color"]}]}

\* Target stores: which handles exist per kind, which definitions exist
\* per owner type, and the metafield values set on its owners.
Targets ==
    {[handles |-> [products |-> hp, collections |-> {T_a}],
      definitions |-> [PRODUCT |-> held.definitions, COLLECTION |-> {}],
      values |-> held.values] :
        hp \in {{T_a}, {T_a, T_b}}, held \in HeldCor}

\* f"{ns}|{key}"
Identifier(ns, key) == ns \o <<"|">> \o key

\* str.startswith
StartsWith(s, prefix) ==
    Len(s) >= Len(prefix) /\ SubSeq(s, 1, Len(prefix)) = prefix

\* The test with the prefix rule forgotten.
IsRestrictedExactOnly(ns) == ns = T_shopify

\* Namespaces create_metafield_definition refuses to create in.
IsRestricted(ns) ==
    ns = T_shopify \/ StartsWith(ns, T_shopify \o <<"-", "-">>)

\* The entry's type as Step 1 and the value phase read it:
\* mf.get("type", "single_line_text_field").
TypeOf(mf) == IF mf.type = NoType THEN DefaultType ELSE mf.type

Range(s) == {s[k] : k \in 1..Len(s)}

\* Step 1: the (namespace, key, type) triples the records of a list need.
DefinitionsNeeded(list) ==
    UNION {{<<mf.namespace, mf.key, TypeOf(mf)>> : mf \in Range(rec.metafields)} :
           rec \in Range(list)}

\* The mutation is sent whatever the flag says.
SendsMutationsAlways(dry) == TRUE

\* `if not dry_run:` in front of every mutation call.
SendsMutations(dry) == ~dry

\* The skip left uncounted.
SkippedUncounted(t) == t

\* total_skipped += 1
Skipped(t) == [t EXCEPT !.skipped = @ + 1]

\* total_metafields_set += len(metafields_to_set)
CountSet(t, n) == [t EXCEPT !.metafields_set = @ + n]

\* The dry-run branch leaving the count alone.
DryRunCountsNothing(t, n) == t

\* The else-branch of `if not dry_run:` counts the values as set.
DryRunCountSet(t, n) == CountSet(t, n)

ZeroTotal == [definitions_created |-> 0, metafields_set |-> 0, skipped |-> 0]

\* What execute can hand back besides the expected data: None ("FAILURE",
\* a transport failure), a body with `errors` and no "data" key ("errors"),
\* a body with `errors` and "data": null ("nullData").  The ghost set
\* `faults` remembers which kinds a run has met.
FaultsOf(outcome) ==
    IF outcome = "FAILURE" THEN {"transport"}
    ELSE IF outcome \in {"errors", "nullData"} THEN {"errors"}
    ELSE IF outcome = "userErrors" THEN {"userErrors"}
    ELSE {}

\* The phases taken one owner type after the other: definitions and
\* values of products, then definitions and values of collections.
RECURSIVE SettlePerOwnerType(_, _, _)
SettlePerOwnerType(pc, pend, i) ==
    IF pc = "create_product" /\ pend = {}
        THEN SettlePerOwnerType("products", {}, 1)
    ELSE IF pc = "products" /\ i > Len(payload.products)
        THEN [pc |-> "get_collection_defs", pending |-> {}, idx |-> 0]
    ELSE IF pc = "create_collection" /\ pend = {}
        THEN SettlePerOwnerType("collections", {}, 1)
    ELSE IF pc = "collections" /\ i > Len(payload.collections)
        THEN [pc |-> "done", pending |-> {}, idx |-> 0]
    ELSE [pc |-> pc, pending |-> pend, idx |-> i]

\* The statement reached from a position: a loop with nothing left is left.
RECURSIVE Settle(_, _, _)
Settle(pc, pend, i) ==
    IF pc = "create_product" /\ pend = {}
        THEN [pc |-> "get_collection_defs", pending |-> {}, idx |-> 0]
    ELSE IF pc = "create_collection" /\ pend = {}
        THEN Settle("products", {}, 1)
    ELSE IF pc = "products" /\ i > Len(payload.products)
        THEN Settle("collections", {}, 1)
    ELSE IF pc = "collections" /\ i > Len(payload.collections)
        THEN [pc |-> "done", pending |-> {}, idx |-> 0]
    ELSE [pc |-> pc, pending |-> pend, idx |-> i]

\* Control moves on with the counters as given; reaching the end logs
\* "Import complete" with the three counts.
Goto(pc, pend, i, newTotal, newFaults) ==
    LET s == Settle(pc, pend, i)
    IN  /\ pcImport' = s.pc
        /\ pending' = s.pending
        /\ idx' = s.idx
        /\ total' = newTotal
        /\ faults' = newFaults
        /\ reported' =
              IF s.pc = "done"
              THEN Append(reported, [dry_run |-> dry_run, total |-> newTotal,
                                     faults |-> newFaults])
              ELSE reported

\* Step 1: collect the definitions the snapshot needs.
CollectDefinitions ==
    /\ pcImport = "step1"
    /\ needed' = [PRODUCT |-> DefinitionsNeeded(payload.products),
                  COLLECTION |-> DefinitionsNeeded(payload.collections)]
    /\ pcImport' = "get_product_defs"
    /\ UNCHANGED <<payload, target, dry_run, overwrite, existing, pending, idx, total,
                   calls, faults, reported, notImportVars>>

CreatePhaseOf(ownerType) ==
    IF ownerType = "PRODUCT" THEN "create_product" ELSE "create_collection"

\* An AttributeError leaves import_metafields: nothing more is counted and
\* "Import complete" is not logged.
Raise(pc, newFaults) ==
    /\ pcImport' = pc
    /\ faults' = newFaults
    /\ UNCHANGED <<pending, idx, total, reported>>

\* get_metafield_definitions: the mapping "namespace|key" -> definition,
\* empty when the body is None or has no "data" key; with "data": null the
\* chained .get raises.
GetDefinitions ==
    /\ pcImport \in {"get_product_defs", "get_collection_defs"}
    /\ LET ot == IF pcImport = "get_product_defs" THEN "PRODUCT" ELSE "COLLECTION"
       IN  \E outcome \in {"ok", "errors", "FAILURE", "nullData"} :
            /\ calls' = Append(calls, [op |-> "metafieldDefinitions",
                                       ownerType |-> ot])
            /\ IF outcome = "nullData"
               THEN /\ existing' = existing
                    /\ Raise("raised_definitions", faults \cup FaultsOf(outcome))
               ELSE /\ existing' =
                          IF outcome = "ok"
                          THEN {Identifier(d.namespace, d.key) :
                                    d \in target.definitions[ot]}
                          ELSE {}
                    /\ Goto(CreatePhaseOf(ot), needed[ot], 0, total,
                            faults \cup FaultsOf(outcome))
    /\ UNCHANGED <<payload, target, dry_run, overwrite, needed, notImportVars>>

OwnerTypeAt(pc) == IF pc = "create_product" THEN "PRODUCT" ELSE "COLLECTION"

\* Step 2, a needed triple whose identifier the target already has.
DefinitionExists ==
    /\ pcImport \in {"create_product", "create_collection"}
    /\ \E t \in pending :
        /\ Identifier(t[1], t[2]) \in existing
        /\ Goto(pcImport, pending \ {t}, 0, total, faults)
    /\ UNCHANGED <<payload, target, dry_run, overwrite, needed, existing, calls,
                   notImportVars>>

\* Step 2, a needed triple the target lacks: create_metafield_definition is
\* called and the created-count goes up whatever it returns; it raises on a
\* body with "data": null.
CreateDefinition ==
    /\ pcImport \in {"create_product", "create_collection"}
    /\ \E t \in pending :
        LET ot == OwnerTypeAt(pcImport)
            counted == [total EXCEPT !.definitions_created = @ + 1]
            call == [op |-> "metafieldDefinitionCreate", ownerType |-> ot,
                     namespace |-> t[1], key |-> t[2], type |-> t[3]]
        IN  /\ Identifier(t[1], t[2]) \notin existing
            /\ IF IsRestricted(t[1]) \/ ~SendsMutations(dry_run)
               THEN /\ Goto(pcImport, pending \ {t}, 0, counted, faults)
                    /\ UNCHANGED <<calls, target>>
               ELSE \E outcome \in {"created", "userErrors", "errors",
                                     "FAILURE", "nullData"} :
                    /\ calls' = Append(calls, call)
                    /\ target' =
                          IF outcome = "created"
                          THEN [target EXCEPT !.definitions[ot] =
                                  @ \cup {[namespace |-> t[1], key |-> t[2],
                                           type |-> t[3]]}]
                          ELSE target
                    /\ IF outcome = "nullData"
                       THEN Raise("raised_definitions",
                                  faults \cup FaultsOf(outcome))
                       ELSE Goto(pcImport, pending \ {t}, 0, counted,
                                 IF outcome = "userErrors" THEN faults
                                 ELSE faults \cup FaultsOf(outcome))
    /\ UNCHANGED <<payload, dry_run, overwrite, needed, existing, notImportVars>>

\* The record the value phase is at, and its kind.
KindAt(pc) == pc

RecordAt == payload[KindAt(pcImport)][idx]

InValuePhase == pcImport \in {"products", "collections"}

LookupCall(kind, handle) ==
    [op |-> IF kind = "products" THEN "productByHandle" ELSE "collectionByHandle",
     handle |-> handle]

\* The gid of the owner of a kind with a handle on the target.
OwnerGid(kind, handle) == <<kind, handle>>

\* Every input carrying the value of the record's first entry.
MetafieldInputsFirstValue(rec, gid) ==
    [k \in 1..Len(rec.metafields) |->
        [ownerId |-> gid,
         namespace |-> rec.metafields[k].namespace,
         key |-> rec.metafields[k].key,
         value |-> rec.metafields[1].value,
         type |-> rec.metafields[k].type]]

\* metafields_to_set for a record and its owner on the target.
MetafieldInputs(rec, gid) ==
    [k \in 1..Len(rec.metafields) |->
        [ownerId |-> gid,
         namespace |-> rec.metafields[k].namespace,
         key |-> rec.metafields[k].key,
         value |-> rec.metafields[k].value,
         type |-> TypeOf(rec.metafields[k])]]

\* The store after metafieldsSet: each input replaces the owner's value
\* for its (namespace, key).
RECURSIVE ValuesAfterSet(_, _)
ValuesAfterSet(values, inputs) ==
    IF inputs = <<>> THEN values
    ELSE LET in == Head(inputs)
             kept == {v \in values :
                        ~(v.ownerId = in.ownerId /\ v.namespace = in.namespace
                          /\ v.key = in.key)}
         IN  ValuesAfterSet(kept \cup {in}, Tail(inputs))

\* Steps 3 and 4, a record without handle: skipped.
SkipNoHandle ==
    /\ InValuePhase
    /\ RecordAt.handle = <<>>
    /\ Goto(pcImport, {}, idx + 1, Skipped(total), faults)
    /\ UNCHANGED <<payload, target, dry_run, overwrite, needed, existing, calls,
                   notImportVars>>

\* Steps 3 and 4, a record whose handle find_target_owner_id does not
\* resolve: no such owner on the target, or the body is None or has no
\* "data" key.  The record is skipped.
LookupMiss ==
    /\ InValuePhase
    /\ RecordAt.handle # <<>>
    /\ \E outcome \in {"notFound", "errors", "FAILURE"} :
        /\ outcome = "notFound"
              => RecordAt.handle \notin target.handles[KindAt(pcImport)]
        /\ calls' = Append(calls, LookupCall(KindAt(pcImport), RecordAt.handle))
        /\ Goto(pcImport, {}, idx + 1, Skipped(total),
                faults \cup FaultsOf(outcome))
    /\ UNCHANGED <<payload, target, dry_run, overwrite, needed, existing, notImportVars>>

\* Steps 3 and 4, the lookup answered with "data": null: the chained .get in
\* find_target_owner_id raises AttributeError and the run ends there.
LookupRaises ==
    /\ InValuePhase
    /\ RecordAt.handle # <<>>
    /\ calls' = Append(calls, LookupCall(KindAt(pcImport), RecordAt.handle))
    /\ Raise("raised", faults \cup FaultsOf("nullData"))
    /\ UNCHANGED <<payload, target, dry_run, overwrite, needed, existing, notImportVars>>

\* Steps 3 and 4, a record whose owner is found: its metafields are set
\* in one metafieldsSet call (none for an empty list, none in a dry run);
\* userErrors are logged and the run goes on; a body without "data" has no
\* userErrors to read, so its values are counted as set.
SetMetafields ==
    /\ InValuePhase
    /\ RecordAt.handle # <<>>
    /\ RecordAt.handle \in target.handles[KindAt(pcImport)]
    /\ LET kind == KindAt(pcImport)
           lookup == LookupCall(kind, RecordAt.handle)
           inputs == MetafieldInputs(RecordAt, OwnerGid(kind, RecordAt.handle))
           counted == CountSet(total, Len(inputs))
       IN  IF inputs = <<>>
           THEN /\ calls' = Append(calls, lookup)
                /\ Goto(pcImport, {}, idx + 1, total, faults)
                /\ UNCHANGED target
           ELSE IF ~SendsMutations(dry_run)
           THEN /\ calls' = Append(calls, lookup)
                /\ Goto(pcImport, {}, idx + 1,
                        DryRunCountSet(total, Len(inputs)), faults)
                /\ UNCHANGED target
           ELSE \E outcome \in {"set", "userErrors", "errors"} :
                /\ calls' = calls \o <<lookup, [op |-> "metafieldsSet",
                                               metafields |-> inputs]>>
                /\ target' =
                      IF outcome = "set"
                      THEN [target EXCEPT !.values = ValuesAfterSet(@, inputs)]
                      ELSE target
                /\ Goto(pcImport, {}, idx + 1,
                        IF outcome = "userErrors" THEN total ELSE counted,
                        faults \cup FaultsOf(outcome))
    /\ UNCHANGED <<payload, dry_run, overwrite, needed, existing, notImportVars>>

\* Steps 3 and 4, execute returns None for the metafieldsSet call, or a
\* body with "data": null: body.get(...).get raises AttributeError and the
\* run ends there.
SetMetafieldsFailure ==
    /\ InValuePhase
    /\ RecordAt.handle # <<>>
    /\ RecordAt.handle \in target.handles[KindAt(pcImport)]
    /\ RecordAt.metafields # <<>>
    /\ SendsMutations(dry_run)
    /\ LET kind == KindAt(pcImport)
           inputs == MetafieldInputs(RecordAt, OwnerGid(kind, RecordAt.handle))
       IN  calls' = calls \o <<LookupCall(kind, RecordAt.handle),
                               [op |-> "metafieldsSet", metafields |-> inputs]>>
    /\ \E outcome \in {"FAILURE", "nullData"} :
        Raise("raised", faults \cup FaultsOf(outcome))
    /\ UNCHANGED <<payload, target, dry_run, overwrite, needed, existing, notImportVars>>

\* The operator runs the import again without --dry-run after a dry run.
RunAgainLive ==
    /\ pcImport = "done"
    /\ dry_run
    /\ dry_run' = FALSE
    /\ pcImport' = "step1"
    /\ needed' = [ot \in OwnerTypes |-> {}]
    /\ existing' = {}
    /\ total' = ZeroTotal
    /\ calls' = <<>>
    /\ faults' = {}
    /\ UNCHANGED <<payload, target, pending, idx, reported, overwrite,
                   notImportVars>>

(***************************************************************************)
(* Colour classifier: is_pink                                              *)
(***************************************************************************)

\* The rule with the red threshold off by one.
PinkRuleStrictRed(r, g, b) ==
    r > 200 /\ g <= 200 /\ b >= 120 /\ (r - g) > 30

\* The pink region: strong red, not too much green, enough blue, red
\* dominating green.
PinkRule(r, g, b) ==
    r >= 200 /\ g <= 200 /\ b >= 120 /\ (r - g) > 30

is_pink(hex) ==
    IF hex = <<>> THEN FALSE
    ELSE LET h == lstrip(hex, "#")
         IN  IF Len(h) # 6 THEN FALSE
             ELSE LET r == int16(SubSeq(h, 1, 2))
                      g == int16(SubSeq(h, 3, 4))
                      b == int16(SubSeq(h, 5, 6))
                  IN  IF ~r.ok \/ ~g.ok \/ ~b.ok THEN FALSE
                      ELSE PinkRule(r.val, g.val, b.val)

\* Bound: the most '#' characters an input starts with.
MaxHashes == 2

\* Colour components the inputs are drawn from: both sides of every
\* threshold of the rule (R 199/200, G 200/201, B 119/120, R-G 30/31).
SampleBytes == {119, 120, 169, 170, 199, 200, 201}

\* Characters an input may be damaged with: non-hex characters that
\* int() tolerates, one it does not, the marker and a lower-case digit.
EditChars == {"#", "+", "-", " ", "g", "c"}

Hashes(n) == [i \in 1..n |-> "#"]

ColourText(n, r, g, b) == Hashes(n) \o Hex2(r) \o Hex2(g) \o Hex2(b)

\* The caller hands over a text with one character replaced.
ReplaceChar ==
    /\ pcPink = "input"
    /\ \E i \in 1..Len(hex_color), c \in EditChars :
          hex_color' = [hex_color EXCEPT ![i] = c]
    /\ pcPink' = "edited"
    /\ UNCHANGED <<pink, notPinkVars>>

\* The caller hands over a text with one character missing.
DeleteChar ==
    /\ pcPink = "input"
    /\ \E i \in 1..Len(hex_color) :
          hex_color' = SubSeq(hex_color, 1, i - 1)
                          \o SubSeq(hex_color, i + 1, Len(hex_color))
    /\ pcPink' = "edited"
    /\ UNCHANGED <<pink, notPinkVars>>

\* The caller hands over a text with one extra character.
InsertChar ==
    /\ pcPink = "input"
    /\ \E i \in 0..Len(hex_color), c \in EditChars :
          hex_color' = SubSeq(hex_color, 1, i) \o <<c>>
                          \o SubSeq(hex_color, i + 1, Len(hex_color))
    /\ pcPink' = "edited"
    /\ UNCHANGED <<pink, notPinkVars>>

\* The call is_pink(hex_color).
Classify ==
    /\ pcPink \in {"input", "edited"}
    /\ pink' = is_pink(hex_color)
    /\ pcPink' = "returned"
    /\ UNCHANGED <<hex_color, notPinkVars>>

(***************************************************************************)
(* Tagging pipeline: main of pink_product_tagger.py                        *)
(***************************************************************************)

UpperLetters == <<"A", "B", "C", "D", "E", "F", "G", "H", "I", "J", "K", "L", "M",
                  "N", "O", "P", "Q", "R", "S", "T", "U", "V", "W", "X", "Y", "Z">>

LowerLetters == <<"a", "b", "c", "d", "e", "f", "g", "h", "i", "j", "k", "l", "m",
                  "n", "o", "p", "q", "r", "s", "t", "u", "v", "w", "x", "y", "z">>

\* str.lower
LowerChar(c) ==
    IF \E i \in 1..26 : UpperLetters[i] = c
    THEN LowerLetters[CHOOSE i \in 1..26 : UpperLetters[i] = c]
    ELSE c

Lower(s) == [k \in 1..Len(s) |-> LowerChar(s[k])]

\* `sub in s` for texts
Contains(s, sub) ==
    \E k \in 0..(Len(s) - Len(sub)) : SubSeq(s, k + 1, k + Len(sub)) = sub

T_rosa == <<"r", "o", "s", "a">>

\* The test forgotten: the tag is never found.
HasRosaNever(tags_str) == FALSE

\* 'rosa' in current_tags.lower()
HasRosa(tags_str) == Contains(Lower(tags_str), T_rosa)

\* The tags text with rosa added: f"{current_tags}, rosa", or "rosa" alone.
WithRosa(tags_str) ==
    IF tags_str # <<>> THEN tags_str \o <<",", " ">> \o T_rosa ELSE T_rosa

\* str.split(',')
RECURSIVE SplitComma(_)
SplitComma(s) ==
    IF \A k \in 1..Len(s) : s[k] # ","
    THEN <<s>>
    ELSE LET k == CHOOSE j \in 1..Len(s) :
                      s[j] = "," /\ \A h \in 1..(j - 1) : s[h] # ","
         IN  <<SubSeq(s, 1, k - 1)>> \o SplitComma(SubSeq(s, k + 1, Len(s)))

\* str.strip
RECURSIVE Strip(_)
Strip(s) ==
    IF s = <<>> THEN s
    ELSE IF IsSpace(Head(s)) THEN Strip(Tail(s))
    ELSE IF IsSpace(s[Len(s)]) THEN Strip(SubSeq(s, 1, Len(s) - 1))
    ELSE s

\* [tag.strip() for tag in new_tags.split(',') if tag.strip()]
RECURSIVE StripAll(_)
StripAll(parts) ==
    IF parts = <<>> THEN <<>>
    ELSE IF Strip(Head(parts)) = <<>> THEN StripAll(Tail(parts))
    ELSE <<Strip(Head(parts))>> \o StripAll(Tail(parts))

TagsArray(new_tags) == StripAll(SplitComma(new_tags))

\* The row save_products_to_csv writes for a collected product.
CsvRow(product) ==
    LET is_pink_color == is_pink(product.custom_cor)
        current_tags == product.tags
    IN  [handle |-> product.handle,
         title |-> product.title,
         tags |-> current_tags,
         custom_cor |-> product.custom_cor,
         is_pink |-> is_pink_color,
         updated_tags |->
            IF is_pink_color /\ ~HasRosa(current_tags)
            THEN WithRosa(current_tags) ELSE current_tags]

\* The filter forgotten: every product is taken.
PinkProductsUnfiltered(products) == products

\* pink_products = [p for p in products if is_pink(p['custom_cor'])]
RECURSIVE PinkProducts(_)
PinkProducts(products) ==
    IF products = <<>> THEN <<>>
    ELSE IF is_pink(Head(products).custom_cor)
         THEN <<Head(products)>> \o PinkProducts(Tail(products))
         ELSE PinkProducts(Tail(products))

\* The products main holds after Step 1.
Products == returned["get_products_with_metafields"]

\* The store after productUpdate(id, tags): the product's tags replaced.
EdgesAfterUpdate(edges, id, tags_array) ==
    [k \in 1..Len(edges) |->
        IF edges[k].id = id THEN [edges[k] EXCEPT !.tags = tags_array]
        ELSE edges[k]]

SourceAfterUpdate(id, tags_array) ==
    [source EXCEPT !.products =
        [i \in 1..Len(source.products) |->
            [source.products[i] EXCEPT
                !.edges = EdgesAfterUpdate(source.products[i].edges, id,
                                           tags_array)]]]

\* The request log of the tagger's collector ends with a last page.
FullyFetched ==
    LET log == fed["get_products_with_metafields"]
    IN  log # <<>> /\ ~log[Len(log)].page.pageInfo.hasNextPage

\* The run ends: what it wrote and did is kept for comparison with a
\* later run.
Finished(rows, count, log, newFaults) ==
    Append(artifacts,
           [dry_run |-> dry_run, rows |-> rows, updated_count |-> count,
            calls |-> log, faults |-> newFaults, complete |-> FullyFetched])

\* main returns when the collector found nothing: no file is written.
NoProducts ==
    /\ program = "tagger"
    /\ pcMain = "fetched"
    /\ Products = <<>>
    /\ pcMain' = "done"
    /\ artifacts' = Finished(csv, 0, calls, faults)
    /\ UNCHANGED <<program, source, status, after, collected, fed, returned,
                   snapshot, csv, upd, updated_count, dry_run, overwrite, calls, faults,
                   notCollectTagVars>>

\* Step 2: save_products_to_csv writes one row per product.  Step 3 starts:
\* with no pink product its loop has nothing to do and main ends.
SaveProductsToCsv ==
    /\ program = "tagger"
    /\ pcMain = "fetched"
    /\ Products # <<>>
    /\ LET rows == [k \in 1..Len(Products) |-> CsvRow(Products[k])]
       IN  /\ csv' = rows
           /\ IF PinkProducts(Products) = <<>>
              THEN /\ pcMain' = "done"
                   /\ upd' = 0
                   /\ artifacts' = Finished(rows, 0, calls, faults)
              ELSE /\ pcMain' = "update"
                   /\ upd' = 1
                   /\ UNCHANGED artifacts
    /\ updated_count' = 0
    /\ UNCHANGED <<program, source, status, after, collected, fed, returned,
                   snapshot, dry_run, overwrite, calls, faults, notCollectTagVars>>

\* The loop of update_product_tags moves to the next pink product, or ends.
NextPinkProduct(count, log, newFaults) ==
    /\ updated_count' = count
    /\ calls' = log
    /\ faults' = newFaults
    /\ IF upd + 1 > Len(PinkProducts(Products))
       THEN /\ pcMain' = "done"
            /\ upd' = 0
            /\ artifacts' = Finished(csv, count, log, newFaults)
       ELSE /\ pcMain' = "update"
            /\ upd' = upd + 1
            /\ UNCHANGED artifacts

\* Step 3, a pink product that carries the tag already: skipped.
AlreadyTagged ==
    /\ program = "tagger"
    /\ pcMain = "update"
    /\ HasRosa(PinkProducts(Products)[upd].tags)
    /\ NextPinkProduct(updated_count, calls, faults)
    /\ UNCHANGED <<program, source, status, after, collected, fed, returned,
                   snapshot, csv, dry_run, overwrite, notCollectTagVars>>

\* Step 3, a pink product without the tag: productUpdate with the new tag
\* array, unless this is a dry run; an update answered with None, with a
\* body without "data" or with userErrors is logged and not counted.
UpdateTags ==
    /\ program = "tagger"
    /\ pcMain = "update"
    /\ LET product == PinkProducts(Products)[upd]
           current_tags == product.tags
           tags_array == TagsArray(WithRosa(current_tags))
           call == [op |-> "productUpdate", id |-> product.id,
                    tags |-> tags_array]
       IN  /\ ~HasRosa(current_tags)
           /\ IF ~SendsMutations(dry_run)
              THEN /\ NextPinkProduct(updated_count + 1, calls, faults)
                   /\ UNCHANGED source
              ELSE \E outcome \in {"updated", "userErrors", "errors",
                                    "FAILURE"} :
                   IF outcome = "updated"
                   THEN /\ source' = SourceAfterUpdate(product.id, tags_array)
                        /\ NextPinkProduct(updated_count + 1,
                                           Append(calls, call), faults)
                   ELSE /\ source' = source
                        /\ NextPinkProduct(updated_count, Append(calls, call),
                                           faults \cup FaultsOf(outcome))
    /\ UNCHANGED <<program, status, after, collected, fed, returned,
                   snapshot, csv, dry_run, overwrite, notCollectTagVars>>

\* Step 3, productUpdate answered with "data": null: the chained .get
\* raises AttributeError, which main logs and raises again.
UpdateTagsRaises ==
    /\ program = "tagger"
    /\ pcMain = "update"
    /\ SendsMutations(dry_run)
    /\ LET product == PinkProducts(Products)[upd]
       IN  /\ ~HasRosa(product.tags)
           /\ calls' = Append(calls,
                  [op |-> "productUpdate", id |-> product.id,
                   tags |-> TagsArray(WithRosa(product.tags))])
    /\ faults' = faults \cup FaultsOf("nullData")
    /\ pcMain' = "raised"
    /\ UNCHANGED <<program, source, status, after, collected, fed, returned,
                   snapshot, csv, upd, updated_count, artifacts, dry_run, overwrite,
                   notCollectTagVars>>

\* The operator runs the pipeline a second time, with or without --dry-run.
RunTaggerAgain ==
    /\ program = "tagger"
    /\ pcMain = "done"
    /\ Len(artifacts) = 1
    /\ dry_run' \in BOOLEAN
    /\ status' = [status EXCEPT !["get_products_with_metafields"] = "running"]
    /\ after' = NoCursor
    /\ collected' = <<>>
    /\ fed' = [fed EXCEPT !["get_products_with_metafields"] = <<>>]
    /\ returned' = [returned EXCEPT !["get_products_with_metafields"] = <<>>]
    /\ pcMain' = "collecting"
    /\ upd' = 0
    /\ updated_count' = 0
    /\ calls' = <<>>
    /\ faults' = {}
    /\ UNCHANGED <<program, source, snapshot, csv, artifacts, overwrite,
                   notCollectTagVars>>

\* Products a store of the tagger is drawn from, as (tags, values of the
\* custom "cor" entries): pink with another tag, pink without tags, pink
\* and tagged "Rosa" already, pink with "ROSAdo" as its second tag, not
\* pink, one with two "cor" entries, not pink then pink, and a pink one
\* whose only tag holds a comma.
TagSamples ==
    {[tags |-> <<T_verao>>, cors |-> <<T_pinkHex>>],
     [tags |-> <<>>, cors |-> <<T_pinkHex>>],
     [tags |-> <<<<"R", "o", "s", "a">>>>, cors |-> <<T_pinkHex>>],
     [tags |-> <<T_verao, <<"R", "O", "S", "A", "d", "o">>>>,
      cors |-> <<T_pinkHex>>],
     [tags |-> <<T_verao>>, cors |-> <<T_redHex>>],
     [tags |-> <<>>, cors |-> <<T_redHex, T_pinkHex>>],
     [tags |-> <<<<"a", ",", "b">>>>, cors |-> <<T_pinkHex>>]}

\* Bound: the most products of the tagger's store.
MaxTagged == 2

\* The n-th product of the tagger's store.
TagNode(n, sample) ==
    [id |-> <<"products", n>>,
     handle |-> <<"p", HexDigits[n + 1]>>,
     title |-> <<"T", HexDigits[n + 1]>>,
     tags |-> sample.tags,
     metafields |->
        [k \in 1..Len(sample.cors) |->
            MetafieldNode(<<"products", n, k>>, T_custom, T_cor, "color",
                          sample.cors[k])]]

\* A product list paged with `size` records per page, cursors in order.
RECURSIVE Paged(_, _, _)
Paged(nodes, size, i) ==
    IF Len(nodes) <= size THEN <<Page(nodes, FALSE, i)>>
    ELSE <<Page(SubSeq(nodes, 1, size), TRUE, i)>>
            \o Paged(SubSeq(nodes, size + 1, Len(nodes)), size, i + 1)

TagStores ==
    {Paged([n \in 1..Len(l) |-> TagNode(n, l[n])], size, 1) :
        l \in SeqsUpTo(TagSamples, MaxTagged), size \in 1..2}

(***************************************************************************)
(* Flattening a snapshot to CSV: metafields_to_csv.py                      *)
(***************************************************************************)

\* The characters of the texts met here, in code point order.
Alphabet ==
    <<"#", ".">> \o SubSeq(HexDigits, 1, 10) \o UpperLetters \o <<"_">>
        \o LowerLetters

CodePoint(c) == CHOOSE i \in 1..Len(Alphabet) : Alphabet[i] = c

\* a < b for texts, as Python compares str.
RECURSIVE TextLess(_, _)
TextLess(a, b) ==
    IF b = <<>> THEN FALSE
    ELSE IF a = <<>> THEN TRUE
    ELSE IF Head(a) = Head(b) THEN TextLess(Tail(a), Tail(b))
    ELSE CodePoint(Head(a)) < CodePoint(Head(b))

\* sorted(list(S))
RECURSIVE Sorted(_)
Sorted(S) ==
    IF S = {} THEN <<>>
    ELSE LET least == CHOOSE x \in S : \A y \in S \ {x} : TextLess(x, y)
         IN  <<least>> \o Sorted(S \ {least})

T_handle == <<"h", "a", "n", "d", "l", "e">>
T_title == <<"t", "i", "t", "l", "e">>
T_columnPrefix ==
    <<"p", "r", "o", "d", "u", "c", "t", ".", "m", "e", "t", "a", "f", "i",
      "e", "l", "d", "s", ".", "c", "u", "s", "t", "o", "m", ".">>

\* f"product.metafields.custom.{key}"
ColumnName(key) == T_columnPrefix \o key

\* The entries of a product in the "custom" namespace, in list order.
CustomEntries(product) == SelectSeq2(product.metafields, T_custom)

\* A dict after the assignments d[column(e)] = e.value for the entries in
\* order: a later entry replaces an earlier one with the same column.
RECURSIVE AssignAll(_, _)
AssignAll(d, entries) ==
    IF entries = <<>> THEN d
    ELSE LET col == ColumnName(Head(entries).key)
             rest == [c \in DOMAIN d \ {col} |-> d[c]]
         IN  AssignAll(rest @@ (col :> Head(entries).value), Tail(entries))

\* The dict built from the product's custom entries.
CustomDict(entries) == AssignAll(<<>>, entries)

extract_custom_metafields(product) == CustomDict(CustomEntries(product))

\* Every custom column with a non-empty key, over all products, sorted.
get_all_custom_keys(products) ==
    Sorted(UNION {{ColumnName(mf.key) :
                      mf \in {m \in Range(CustomEntries(product)) :
                                  m.key # <<>>}} :
                  product \in Range(products)})

\* row_data of a product: handle, title and its custom columns.
RowData(product) ==
    (T_handle :> product.handle) @@ (T_title :> product.title)
        @@ extract_custom_metafields(product)

\* The cells DictWriter writes for a row: the value per header column, the
\* empty string for a column the row lacks.
Cells(row_data, fieldnames) ==
    [k \in 1..Len(fieldnames) |->
        IF fieldnames[k] \in DOMAIN row_data THEN row_data[fieldnames[k]]
        ELSE <<>>]

\* export_to_csv returns at once when there are no products: no file.
CsvNoProducts ==
    /\ pcCsv = "start"
    /\ data = <<>>
    /\ pcCsv' = "done"
    /\ UNCHANGED <<data, headers, written, notCsvVars>>

\* The header row: handle, title and the sorted custom columns.
CsvWriteHeader ==
    /\ pcCsv = "start"
    /\ data # <<>>
    /\ headers' = <<T_handle, T_title>> \o get_all_custom_keys(data)
    /\ pcCsv' = "rows"
    /\ UNCHANGED <<data, written, notCsvVars>>

\* One turn of the loop over the products: writer.writerow(row_data).
CsvWriteRow ==
    /\ pcCsv = "rows"
    /\ LET row_data == RowData(data[Len(written) + 1])
       IN  /\ DOMAIN row_data \subseteq Range(headers)
           /\ written' = Append(written, Cells(row_data, headers))
    /\ pcCsv' = IF Len(written) + 1 = Len(data) THEN "done" ELSE "rows"
    /\ UNCHANGED <<data, headers, notCsvVars>>

\* writer.writerow raises ValueError for a row_data with a column that is
\* not among the fieldnames; main logs it and raises it again.
CsvWriteRowRaises ==
    /\ pcCsv = "rows"
    /\ ~(DOMAIN RowData(data[Len(written) + 1]) \subseteq Range(headers))
    /\ pcCsv' = "raised"
    /\ UNCHANGED <<data, headers, written, notCsvVars>>

T_up == <<"C", "o", "r">>

\* Products a document is drawn from: two custom entries; a custom and
\* another entry; the same custom key twice; a key in capitals; no
\* entries; a custom entry with an empty key.
CsvSamples ==
    {Owner(1, T_a, <<Entry(T_custom, T_cor, "color", T_pinkHex),
                     Entry(T_custom, T_tamanho, DefaultType, <<"M">>)>>),
     Owner(2, T_b, <<Entry(T_custom, T_tamanho, DefaultType, <<"G">>),
                     Entry(T_seo, T_cor, "color", T_redHex)>>),
     Owner(3, T_n, <<Entry(T_custom, T_cor, "color", T_redHex),
                     Entry(T_custom, T_cor, "color", T_pinkHex)>>),
     Owner(4, T_key, <<Entry(T_custom, T_up, DefaultType, <<"u">>)>>),
     Owner(5, <<>>, <<>>),
     Owner(6, T_a, <<Entry(T_custom, <<>>, DefaultType, <<"x">>)>>)}

\* Bound: the most products of a document.
MaxRows == 2

(***************************************************************************)
(* Round trip: export_all, then a live import into the store exported      *)
(***************************************************************************)

\* All nodes of a resource kind of a store, page after page.
RECURSIVE NodesOf(_)
NodesOf(pages) ==
    IF pages = <<>> THEN <<>>
    ELSE Head(pages).edges \o NodesOf(Tail(pages))

\* The metafield values a store holds, as metafieldsSet would have written
\* them: one per owner and stored entry.
StoredValues(src) ==
    UNION {UNION {{[ownerId |-> OwnerGid(kind, node.handle),
                    namespace |-> mf.namespace, key |-> mf.key,
                    value |-> mf.value, type |-> mf.type] :
                        mf \in Range(node.metafields)} :
                  node \in Range(NodesOf(src[kind]))} :
           kind \in Kinds}

\* The definitions a store has for an owner type: here, those of its
\* entries in the "custom" namespace.
StoredDefinitions(src, ownerType) ==
    UNION {{[namespace |-> mf.namespace, key |-> mf.key, type |-> mf.type] :
                mf \in {m \in Range(node.metafields) : m.namespace = T_custom}} :
           node \in Range(NodesOf(src[KindOf(ownerType)]))}

\* The exported store seen as the target of an import.
StoreAsTarget(src) ==
    [handles |-> [kind \in Kinds |->
                     {node.handle : node \in Range(NodesOf(src[kind]))}],
     definitions |-> [ot \in OwnerTypes |-> StoredDefinitions(src, ot)],
     values |-> StoredValues(src)]

\* The operator imports the snapshot just written into the store it was
\* exported from, without --dry-run.
ImportSnapshot ==
    /\ program = "export_all"
    /\ pcMain = "done"
    /\ pcImport = "idle"
    /\ payload' = snapshot
    /\ target' = StoreAsTarget(source)
    /\ dry_run' = FALSE
    /\ pcImport' = "step1"
    /\ UNCHANGED <<needed, existing, pending, idx, total, reported, calls,
                   faults, overwrite, notImportVars>>

(***************************************************************************)
(* Specifications: one per program                                         *)
(***************************************************************************)

\* No call of is_pink is being followed.
IdlePink ==
    /\ hex_color = <<>>
    /\ pcPink = "idle"
    /\ pink = "none"

\* A kind with no records: one empty page.
OnePage == <<Page(<<>>, FALSE, NoCursor)>>

NoSnapshot == [products |-> <<>>, collections |-> <<>>]

\* Nothing of the collectors is running.
IdleCollect ==
    /\ program = "none"
    /\ source = [k \in Kinds |-> OnePage]
    /\ status = [c \in Collectors |-> "idle"]
    /\ after = NoCursor
    /\ collected = <<>>
    /\ fed = [c \in Collectors |-> <<>>]
    /\ returned = [c \in Collectors |-> <<>>]
    /\ pcMain = "idle"
    /\ snapshot = NoSnapshot

\* No import is running.
IdleImport ==
    /\ payload = [products |-> <<>>, collections |-> <<>>]
    /\ target = [handles |-> [products |-> {}, collections |-> {}],
                 definitions |-> [PRODUCT |-> {}, COLLECTION |-> {}],
                 values |-> {}]
    /\ pcImport = "idle"
    /\ needed = [ot \in OwnerTypes |-> {}]
    /\ existing = {}
    /\ pending = {}
    /\ idx = 0
    /\ total = ZeroTotal
    /\ reported = <<>>

\* No run with a --dry-run flag is under way.
IdleRun ==
    /\ dry_run = TRUE
    /\ overwrite = FALSE
    /\ calls = <<>>
    /\ faults = {}

\* The tagger has written and updated nothing.
IdleTag ==
    /\ csv = <<>>
    /\ upd = 0
    /\ updated_count = 0
    /\ artifacts = <<>>

\* No flattening is under way.
IdleCsv ==
    /\ data = <<>>
    /\ headers = <<>>
    /\ written = <<>>
    /\ pcCsv = "idle"

InitCollect ==
    /\ program \in {"export_all", "tagger"}
    /\ source \in
          {[products |-> p, collections |-> c] :
              p \in PageLists("products"),
              c \in IF program = "export_all"
                    THEN PageLists("collections") ELSE {OnePage}}
    /\ status = [c \in Collectors |->
                    IF \/ program = "export_all"
                          /\ c = "export_products_metafields"
                       \/ program = "tagger"
                          /\ c = "get_products_with_metafields"
                    THEN "running" ELSE "idle"]
    /\ after = NoCursor
    /\ collected = <<>>
    /\ fed = [c \in Collectors |-> <<>>]
    /\ returned = [c \in Collectors |-> <<>>]
    /\ pcMain = "collecting"
    /\ snapshot = NoSnapshot
    /\ IdlePink
    /\ IdleImport
    /\ IdleRun
    /\ IdleTag
    /\ IdleCsv

NextCollect == FetchPage \/ FetchNoBlock \/ FetchFailure \/ WriteSnapshot

SpecCollect == InitCollect /\ [][NextCollect]_vars

InitImport ==
    /\ payload \in Payloads
    /\ target \in Targets
    /\ dry_run \in BOOLEAN
    /\ overwrite = FALSE
    /\ pcImport = "step1"
    /\ needed = [ot \in OwnerTypes |-> {}]
    /\ existing = {}
    /\ pending = {}
    /\ idx = 0
    /\ total = ZeroTotal
    /\ calls = <<>>
    /\ faults = {}
    /\ reported = <<>>
    /\ IdlePink
    /\ IdleCollect
    /\ IdleTag
    /\ IdleCsv

NextImport ==
    \/ CollectDefinitions
    \/ GetDefinitions
    \/ DefinitionExists
    \/ CreateDefinition
    \/ SkipNoHandle
    \/ LookupMiss
    \/ LookupRaises
    \/ SetMetafields
    \/ SetMetafieldsFailure
    \/ RunAgainLive

SpecImport == InitImport /\ [][NextImport]_vars

\* Steps 1 and 2 of import_metafields on their own, over snapshots that
\* may hold one (namespace, key) under two types.
InitDefinitions ==
    /\ payload \in DefinitionPayloads
    /\ target \in Targets
    /\ dry_run \in BOOLEAN
    /\ overwrite = FALSE
    /\ pcImport = "step1"
    /\ needed = [ot \in OwnerTypes |-> {}]
    /\ existing = {}
    /\ pending = {}
    /\ idx = 0
    /\ total = ZeroTotal
    /\ calls = <<>>
    /\ faults = {}
    /\ reported = <<>>
    /\ IdlePink
    /\ IdleCollect
    /\ IdleTag
    /\ IdleCsv

NextDefinitions ==
    \/ CollectDefinitions
    \/ GetDefinitions
    \/ DefinitionExists
    \/ CreateDefinition

SpecDefinitions == InitDefinitions /\ [][NextDefinitions]_vars

InitTag ==
    /\ program = "tagger"
    /\ source \in {[products |-> p, collections |-> OnePage] : p \in TagStores}
    /\ status = [c \in Collectors |->
                    IF c = "get_products_with_metafields"
                    THEN "running" ELSE "idle"]
    /\ after = NoCursor
    /\ collected = <<>>
    /\ fed = [c \in Collectors |-> <<>>]
    /\ returned = [c \in Collectors |-> <<>>]
    /\ pcMain = "collecting"
    /\ snapshot = NoSnapshot
    /\ dry_run \in BOOLEAN
    /\ overwrite = FALSE
    /\ calls = <<>>
    /\ faults = {}
    /\ IdleTag
    /\ IdleCsv
    /\ IdlePink
    /\ IdleImport

NextTag ==
    \/ FetchPage
    \/ FetchNoBlock
    \/ FetchFailure
    \/ NoProducts
    \/ SaveProductsToCsv
    \/ AlreadyTagged
    \/ UpdateTags
    \/ UpdateTagsRaises
    \/ RunTaggerAgain

SpecTag == InitTag /\ [][NextTag]_vars

\* A live import with or without --overwrite.
InitOverwrite ==
    /\ payload \in Payloads
    /\ target \in Targets
    /\ dry_run = FALSE
    /\ overwrite \in BOOLEAN
    /\ pcImport = "step1"
    /\ needed = [ot \in OwnerTypes |-> {}]
    /\ existing = {}
    /\ pending = {}
    /\ idx = 0
    /\ total = ZeroTotal
    /\ calls = <<>>
    /\ faults = {}
    /\ reported = <<>>
    /\ IdlePink
    /\ IdleCollect
    /\ IdleTag
    /\ IdleCsv

NextOverwrite ==
    \/ CollectDefinitions
    \/ GetDefinitions
    \/ DefinitionExists
    \/ CreateDefinition
    \/ SkipNoHandle
    \/ LookupMiss
    \/ LookupRaises
    \/ SetMetafields
    \/ SetMetafieldsFailure

SpecOverwrite == InitOverwrite /\ [][NextOverwrite]_vars

\* The two programs with a --dry-run flag: one run of either.
InitMutators == InitImport \/ InitTag

NextMutators == NextImport \/ NextTag

SpecMutators == InitMutators /\ [][NextMutators]_vars

\* n pages of products, each naming the next by its cursor; the last one
\* holds a product without metafields too.
FullPages(n) ==
    [i \in 1..n |->
        Page(IF i < n THEN <<StoreNode("products", i, 1)>>
             ELSE <<StoreNode("products", i, 1), StoreNode("products", i, 2)>>,
             i < n, i)]

\* Stores the round trip starts from: products over up to MaxPages pages,
\* collections none or one.
RoundTripStores ==
    {[products |-> FullPages(n), collections |-> c] :
        n \in 1..MaxPages,
        c \in {OnePage,
                <<Page(<<StoreNode("collections", 1, 1)>>, FALSE, 1)>>}}

\* export_all followed by a live import into the same store.
InitRoundTrip ==
    /\ program = "export_all"
    /\ source \in RoundTripStores
    /\ status = [c \in Collectors |->
                    IF c = "export_products_metafields"
                    THEN "running" ELSE "idle"]
    /\ after = NoCursor
    /\ collected = <<>>
    /\ fed = [c \in Collectors |-> <<>>]
    /\ returned = [c \in Collectors |-> <<>>]
    /\ pcMain = "collecting"
    /\ snapshot = NoSnapshot
    /\ IdlePink
    /\ IdleImport
    /\ IdleRun
    /\ IdleTag
    /\ IdleCsv

NextRoundTrip ==
    \/ FetchPage
    \/ FetchNoBlock
    \/ FetchFailure
    \/ WriteSnapshot
    \/ ImportSnapshot
    \/ CollectDefinitions
    \/ GetDefinitions
    \/ DefinitionExists
    \/ CreateDefinition
    \/ LookupMiss
    \/ LookupRaises
    \/ SetMetafields
    \/ SetMetafieldsFailure

SpecRoundTrip == InitRoundTrip /\ [][NextRoundTrip]_vars

InitCsv ==
    /\ data \in SeqsUpTo(CsvSamples, MaxRows)
    /\ headers = <<>>
    /\ written = <<>>
    /\ pcCsv = "start"
    /\ IdlePink
    /\ IdleCollect
    /\ IdleImport
    /\ IdleRun
    /\ IdleTag

NextCsv == CsvNoProducts \/ CsvWriteHeader \/ CsvWriteRow \/ CsvWriteRowRaises

SpecCsv == InitCsv /\ [][NextCsv]_vars

InitPink ==
    /\ hex_color \in
          {<<>>} \cup {ColourText(n, r, g, b) :
                          n \in 0..MaxHashes, r \in SampleBytes,
                          g \in SampleBytes, b \in SampleBytes}
    /\ pcPink = "input"
    /\ pink = "none"
    /\ IdleCollect
    /\ IdleImport
    /\ IdleRun
    /\ IdleTag
    /\ IdleCsv

NextPink == ReplaceChar \/ DeleteChar \/ InsertChar \/ Classify

SpecPink == InitPink /\ [][NextPink]_vars

(***************************************************************************)
(* Claims about is_pink                                                    *)
(***************************************************************************)

IsSixHexDigits(s) == Len(s) = 6 /\ \A i \in 1..6 : IsHexDigit(s[i])

\* The colour component written by two hex digits.
ByteOf(s, i) == 16 * HexVal(s[i]) + HexVal(s[i + 1])

\* C1: whenever the text, with its leading '#' removed, is not exactly six
\* hexadecimal digits, is_pink returns false.  (The marker is removed the
\* way the code removes it, every leading '#', the reading most favourable
\* to the code.)
C1_MalformedIsFalse ==
    (pcPink = "returned" /\ ~IsSixHexDigits(lstrip(hex_color, "#")))
        => pink = FALSE

\* C2: for a well-formed colour (at most one leading '#', then six hex
\* digits giving R, G, B) is_pink returns true exactly when R >= 200,
\* G <= 200, B >= 120 and R - G > 30.
WellFormedColour(s) ==
    \/ IsSixHexDigits(s)
    \/ (s # <<>> /\ Head(s) = "#" /\ IsSixHexDigits(Tail(s)))

Digits(s) == IF Head(s) = "#" THEN Tail(s) ELSE s

C2_PinkRule ==
    (pcPink = "returned" /\ WellFormedColour(hex_color))
        => LET d == Digits(hex_color)
               R == ByteOf(d, 1)
               G == ByteOf(d, 3)
               B == ByteOf(d, 5)
           IN  pink = (R >= 200 /\ G <= 200 /\ B >= 120 /\ R - G > 30)

\* A well-formed colour on the R threshold has been classified pink.
C2_Witness ==
    /\ pcPink = "returned"
    /\ WellFormedColour(hex_color)
    /\ ByteOf(Digits(hex_color), 1) = 200
    /\ pink = TRUE

(***************************************************************************)
(* Claims about the paginated collectors                                   *)
(***************************************************************************)

\* The nodes of the pages a collector was fed, in the order fed.
RECURSIVE FedNodes(_)
FedNodes(log) ==
    IF log = <<>> THEN <<>>
    ELSE Head(log).page.edges \o FedNodes(Tail(log))

Identities(list) ==
    [k \in 1..Len(list) |-> <<list[k].id, list[k].handle, list[k].title>>]

LastFed(c) == fed[c][Len(fed[c])]

\* C3: a collector fed pages until one reports no next page returns then,
\* and what a collector returns is the records of the pages it was fed,
\* page after page in page order, each once.
C3_ReturnsPagesInOrder ==
    \A c \in Collectors :
        /\ status[c] = "returned"
              => Identities(returned[c]) = Identities(FedNodes(fed[c]))
        /\ (fed[c] # <<>> /\ ~LastFed(c).page.pageInfo.hasNextPage)
              => status[c] = "returned"

\* The tagger's collector has returned a list gathered from two pages, the
\* second of which reported no next page.
C3_Witness ==
    \E c \in Collectors :
        /\ status[c] = "returned"
        /\ Len(fed[c]) = 2
        /\ ~LastFed(c).page.pageInfo.hasNextPage
        /\ Len(returned[c]) >= 3
        /\ c = "get_products_with_metafields"

\* C4: a transport failure on a page request makes the collector stop and
\* return what it gathered; nothing is raised, so export_all still collects
\* the collections and writes the snapshot.
C4_FailureIsNotRaised ==
    /\ \A c \in Collectors : status[c] # "raised"
    /\ pcMain # "raised"

(***************************************************************************)
(* Claims about the import and the dry-run flag                            *)
(***************************************************************************)

OpsOf(log) == {log[k].op : k \in 1..Len(log)}

ReadOps == {"metafieldDefinitions", "productByHandle", "collectionByHandle"}

\* C5: in a dry run no metafieldDefinitionCreate, metafieldsSet or
\* productUpdate is sent: every request of the run is a read query.
C5_DryRunSendsOnlyQueries ==
    dry_run => OpsOf(calls) \subseteq ReadOps

\* A dry-run import has ended having counted definitions and values it
\* would have written.
C5_Witness ==
    /\ pcImport = "done"
    /\ dry_run
    /\ total.definitions_created > 0
    /\ total.metafields_set > 0
    /\ calls # <<>>

\* C6 as stated: the counts a dry run reports equal the counts of a live
\* run on the same snapshot and the same target.
C6_DryCountsEqualLiveCounts ==
    (Len(reported) = 2 /\ reported[1].dry_run /\ ~reported[2].dry_run)
        => reported[1].total = reported[2].total

\* C6 amended: the counts are equal when every request of both runs is
\* answered with its data (no transport failure, no GraphQL-level error) and
\* no metafieldsSet call returns userErrors.
C6_CountsEqualWithoutFaults ==
    (/\ Len(reported) = 2
     /\ reported[1].dry_run /\ ~reported[2].dry_run
     /\ reported[1].faults = {} /\ reported[2].faults = {})
        => reported[1].total = reported[2].total

\* A dry run and a live run without faults have both reported all three
\* counts above zero.
C6_Witness ==
    /\ Len(reported) = 2
    /\ reported[1].dry_run /\ ~reported[2].dry_run
    /\ reported[1].faults = {} /\ reported[2].faults = {}
    /\ reported[2].total.definitions_created > 0
    /\ reported[2].total.metafields_set > 0
    /\ reported[2].total.skipped > 0

\* The records of a kind with an empty handle or a handle the target lacks.
Unmatched(kind) ==
    {r \in 1..Len(payload[kind]) :
        \/ payload[kind][r].handle = <<>>
        \/ payload[kind][r].handle \notin target.handles[kind]}

UnmatchedCount ==
    Cardinality(Unmatched("products")) + Cardinality(Unmatched("collections"))

RecordCount == Len(payload.products) + Len(payload.collections)

SetCalls == {k \in 1..Len(calls) : calls[k].op = "metafieldsSet"}

\* metafieldsSet is sent only for owners the target has, at most one call
\* for each record that has a counterpart.
SetCallsOnlyForMatched ==
    /\ Cardinality(SetCalls) <= RecordCount - UnmatchedCount
    /\ \A k \in SetCalls :
         LET gid == calls[k].metafields[1].ownerId
         IN  gid[2] # <<>> /\ gid[2] \in target.handles[gid[1]]

\* C7 as stated: without transport failures the skipped count at the end is
\* the number M of records with an empty or unmatched handle, and no
\* metafieldsSet is sent for any of those M records.
C7_SkippedIsUnmatched ==
    (pcImport = "done" /\ "transport" \notin faults)
        => (total.skipped = UnmatchedCount /\ SetCallsOnlyForMatched)

\* C7 amended: the skipped count is M when no request fails at the
\* transport and no lookup is answered with a GraphQL-level error instead of
\* data; no metafieldsSet is sent for any of the M records in any case.
C7_SkippedIsUnmatchedWithoutErrors ==
    pcImport = "done"
        => /\ SetCallsOnlyForMatched
           /\ (faults \cap {"transport", "errors"} = {})
                 => total.skipped = UnmatchedCount

\* A live run whose requests were all answered with data has skipped a
\* record without handle and one with an unknown handle, and has set values
\* for another.
C7_Witness ==
    /\ pcImport = "done"
    /\ ~dry_run
    /\ faults \cap {"transport", "errors"} = {}
    /\ \E r \in 1..Len(payload.products) : payload.products[r].handle = <<>>
    /\ \E r \in Unmatched("collections") : payload.collections[r].handle # <<>>
    /\ total.skipped = 2
    /\ SetCalls # {}

\* C8: no metafieldDefinitionCreate is sent for the namespace "shopify" or
\* one beginning with "shopify--"; the import goes on past such a triple.
C8_NoRestrictedCreate ==
    \A k \in 1..Len(calls) :
        calls[k].op = "metafieldDefinitionCreate"
            => /\ calls[k].namespace # T_shopify
               /\ ~StartsWith(calls[k].namespace, T_shopify \o <<"-", "-">>)

\* A live import needing a "shopify" and a "shopify--" definition the
\* target lacks has ended, having sent a create call for another one.
C8_Witness ==
    /\ pcImport = "done"
    /\ ~dry_run
    /\ \E t \in needed["PRODUCT"] : t[1] = T_shopify
    /\ \E t \in needed["PRODUCT"] : t[1] = T_shopifyApp
    /\ "metafieldDefinitionCreate" \in OpsOf(calls)

\* C9: in the value phase a failure on one record (lookup, userErrors,
\* FAILURE on its mutation) never ends the run.
C9_ValuePhaseNeverAborts ==
    pcImport # "raised"

(***************************************************************************)
(* Claims about the tagging pipeline                                       *)
(***************************************************************************)

UpdatedTagsOf(rows) ==
    [k \in 1..Len(rows) |-> <<rows[k].handle, rows[k].updated_tags>>]

UpdatesIn(log) == Cardinality({k \in 1..Len(log) : log[k].op = "productUpdate"})

UpdatedTagListsOf(rows) ==
    [k \in 1..Len(rows) |-> <<rows[k].handle, TagsArray(rows[k].updated_tags)>>]

ValuesHeld(gid, ns, key) ==
    {v.value : v \in {w \in target.values :
                        w.ownerId = gid /\ w.namespace = ns /\ w.key = key}}

\* C11: from the moment the import into the exported store starts, for every
\* record of the snapshot and each of its entries outside the restricted
\* namespaces the store holds exactly the value that was exported.
C11_RoundTripKeepsValues ==
    pcImport # "idle"
        => \A kind \in Kinds :
             \A rec \in Range(snapshot[kind]) :
               \A mf \in Range(rec.metafields) :
                 ~IsRestricted(mf.namespace)
                     => ValuesHeld(OwnerGid(kind, rec.handle),
                                   mf.namespace, mf.key) = {mf.value}

\* The import has ended after metafieldsSet calls for exported products and
\* a collection, each with several entries, all answered without fault.
C11_Witness ==
    /\ pcImport = "done"
    /\ faults = {}
    /\ total.metafields_set >= 6
    /\ \E k \in SetCalls : calls[k].metafields[1].ownerId[1] = "collections"
    /\ \E k \in SetCalls : calls[k].metafields[1].ownerId[1] = "products"

\* C12: without --overwrite no step of the import changes the value of a
\* metafield the target owner already has (same namespace and key).
C12_NoOverwriteKeepsExisting ==
    [][~overwrite =>
         \A v \in target.values :
            \A w \in target'.values :
               (w.ownerId = v.ownerId /\ w.namespace = v.namespace
                    /\ w.key = v.key)
                  => w.value = v.value]_vars

(***************************************************************************)
(* Claims about the order and the accounting of the import                 *)
(***************************************************************************)

DefinitionOps == {"metafieldDefinitions", "metafieldDefinitionCreate"}

ValueOps == {"productByHandle", "collectionByHandle", "metafieldsSet"}

\* C13: a request is sent only after Step 1 has gathered the needed
\* definitions of the whole snapshot, and every definition query and create
\* call of a run comes before its first by-handle lookup and metafieldsSet.
C13_PhasesInOrder ==
    /\ calls # <<>>
          => /\ pcImport # "step1"
             /\ \A ot \in OwnerTypes :
                   needed[ot] = DefinitionsNeeded(payload[KindOf(ot)])
    /\ \A i \in 1..Len(calls) : \A j \in 1..Len(calls) :
          (calls[i].op \in DefinitionOps /\ calls[j].op \in ValueOps) => i < j

\* A live import has ended having sent create calls for both owner types,
\* lookups for both kinds and a metafieldsSet.
C13_Witness ==
    /\ pcImport = "done"
    /\ \E k \in 1..Len(calls) :
          calls[k].op = "metafieldDefinitionCreate" /\ calls[k].ownerType = "PRODUCT"
    /\ \E k \in 1..Len(calls) :
          calls[k].op = "metafieldDefinitionCreate"
             /\ calls[k].ownerType = "COLLECTION"
    /\ {"productByHandle", "collectionByHandle", "metafieldsSet"}
          \subseteq OpsOf(calls)

(***************************************************************************)
(* Claims about the rows and the updates of the tagging pipeline           *)
(***************************************************************************)

\* The text reads r-o-s-a somewhere, in either case of each letter.
ReadsRosa(text) ==
    \E k \in 1..(Len(text) - 3) :
        /\ text[k] \in {"r", "R"}
        /\ text[k + 1] \in {"o", "O"}
        /\ text[k + 2] \in {"s", "S"}
        /\ text[k + 3] \in {"a", "A"}

\* C14: a row's updated_tags is its tags with ", rosa" appended ("rosa"
\* alone without tags) exactly when the product is classified pink and its
\* tags do not read rosa in any case; otherwise it is the tags.  No
\* productUpdate is sent for a product that is not classified pink.
C14_UpdatedTags ==
    /\ \A k \in 1..Len(csv) :
          LET row == csv[k]
          IN  /\ row.is_pink = is_pink(row.custom_cor)
              /\ row.updated_tags =
                    IF row.is_pink /\ ~ReadsRosa(row.tags)
                    THEN IF row.tags = <<>> THEN T_rosa
                         ELSE row.tags \o <<",", " ">> \o T_rosa
                    ELSE row.tags
    /\ program = "tagger"
          => \A k \in 1..Len(calls) :
                calls[k].op = "productUpdate"
                   => \E n \in 1..Len(Products) :
                         /\ Products[n].id = calls[k].id
                         /\ is_pink(Products[n].custom_cor)

\* A live run over a pink product with tags, and one that is not pink, has
\* written its rows and sent a productUpdate.
C14_Witness ==
    /\ program = "tagger"
    /\ pcMain = "done"
    /\ \E k \in 1..Len(csv) :
          csv[k].is_pink /\ csv[k].tags # <<>>
             /\ csv[k].updated_tags # csv[k].tags
    /\ \E k \in 1..Len(csv) : ~csv[k].is_pink
    /\ UpdatesIn(calls) > 0

(***************************************************************************)
(* Claims about entries with the same namespace and key                    *)
(***************************************************************************)

\* The value of the last entry with key "cor" ("" when there is none).
RECURSIVE LastCor(_)
LastCor(mfs) ==
    IF mfs = <<>> THEN <<>>
    ELSE IF mfs[Len(mfs)].key = T_cor THEN mfs[Len(mfs)].value
    ELSE LastCor(SubSeq(mfs, 1, Len(mfs) - 1))

\* C15, the tagging collector: the custom_cor of a collected product is the
\* value of the last "cor" entry the product was served with.
C15_TaggerUsesLastCor ==
    LET c == "get_products_with_metafields"
    IN  status[c] = "returned"
          => \A k \in 1..Len(returned[c]) :
               \A node \in Range(NodesOf(source.products)) :
                  node.id = returned[c][k].id
                     => returned[c][k].custom_cor =
                            LastCor(MetafieldsServed(c, node))

(***************************************************************************)
(* Claims about the CSV flattening                                         *)
(***************************************************************************)

\* The custom columns observed over all products of the document.
ObservedColumns ==
    UNION {{ColumnName(mf.key) : mf \in Range(CustomEntries(product))} :
           product \in Range(data)}

\* The value of the product's last custom entry for a column ("" when it
\* has none).
RECURSIVE LastValueFor(_, _)
LastValueFor(entries, col) ==
    IF entries = <<>> THEN <<>>
    ELSE IF ColumnName(entries[Len(entries)].key) = col
         THEN entries[Len(entries)].value
    ELSE LastValueFor(SubSeq(entries, 1, Len(entries) - 1), col)

\* The file has handle, title and every observed column, in ascending
\* order, and one row per product in input order with the product's value
\* in each cell.
FlattenedAsSpecified ==
    /\ Len(headers) = 2 + Cardinality(ObservedColumns)
    /\ headers[1] = T_handle /\ headers[2] = T_title
    /\ {headers[k] : k \in 3..Len(headers)} = ObservedColumns
    /\ \A k \in 3..(Len(headers) - 1) : TextLess(headers[k], headers[k + 1])
    /\ Len(written) = Len(data)
    /\ \A r \in 1..Len(written) :
          /\ Len(written[r]) = Len(headers)
          /\ written[r][1] = data[r].handle
          /\ written[r][2] = data[r].title
          /\ \A k \in 3..Len(headers) :
                written[r][k] = LastValueFor(CustomEntries(data[r]), headers[k])

\* C16: for a non-empty product list, entries with an empty key included,
\* the flattening completes, and the file it has written is as specified.
C16_FlatteningCompletes ==
    /\ pcCsv # "raised"
    /\ (pcCsv = "done" /\ data # <<>>) => FlattenedAsSpecified


CreateCalls == {k \in 1..Len(calls) : calls[k].op = "metafieldDefinitionCreate"}

\* No create call of the running phase is for an identifier of the
\* existing-definitions mapping fetched for its owner type.
NoCreateForExisting ==
    (pcImport \in {"create_product", "create_collection"}) =>
        \A i \in CreateCalls :
            calls[i].ownerType = OwnerTypeAt(pcImport) =>
                Identifier(calls[i].namespace, calls[i].key) \notin existing

\* C17: in one import run at most one metafieldDefinitionCreate call is
\* issued per (namespace, key) per owner type, and none for a (namespace,
\* key) of the existing-definitions mapping fetched for that owner type,
\* also when the snapshot holds the (namespace, key) under two types or
\* without a type on some entries.
C17_OneCreatePerIdentifier ==
    /\ \A i \in CreateCalls : \A j \in CreateCalls :
          (calls[i].ownerType = calls[j].ownerType
           /\ calls[i].namespace = calls[j].namespace
           /\ calls[i].key = calls[j].key) => i = j
    /\ NoCreateForExisting

(***************************************************************************)
(* Claims about the cursors of the collectors                              *)
(***************************************************************************)

\* The first request carries no cursor and each later one carries what the
\* page just processed gave as endCursor.
CursorIsLastEndCursor ==
    \A c \in Collectors :
        /\ fed[c] # <<>> => fed[c][1].after = NoCursor
        /\ \A k \in 2..Len(fed[c]) :
              fed[c][k].after = fed[c][k - 1].page.pageInfo.endCursor

\* C18: the first request of a collector carries no cursor, each later
\* request carries the endCursor of the page just processed, and no page
\* is requested twice, also when a page reports hasNextPage with an empty
\* or missing endCursor.
C18_CursorsAdvance ==
    /\ CursorIsLastEndCursor
    /\ \A c \in Collectors :
          \A k \in 1..Len(fed[c]) : \A m \in 1..Len(fed[c]) :
              PageServed(BlockOf(c), fed[c][k].after)
                  = PageServed(BlockOf(c), fed[c][m].after) => k = m

(***************************************************************************)
(* Claims about the artifact and the updates of the tagging pipeline       *)
(***************************************************************************)

\* The nodes the tagger's collector was served, with their tag lists.
TaggerNodes == FedNodes(fed["get_products_with_metafields"])

UpdateCallsFor(id) ==
    {i \in 1..Len(calls) : calls[i].op = "productUpdate" /\ calls[i].id = id}

\* A first live run has ended on a list of products.
LiveRunEnded ==
    /\ program = "tagger"
    /\ pcMain = "done"
    /\ ~dry_run
    /\ Len(artifacts) = 1
    /\ Products # <<>>

\* A productUpdate was issued for exactly the products whose row has
\* updated_tags different from tags.
UpdatesFollowRows ==
    LiveRunEnded =>
        \A k \in 1..Len(csv) :
            (csv[k].updated_tags # csv[k].tags)
                <=> UpdateCallsFor(Products[k].id) # {}

\* C19: after a live run a productUpdate was issued for exactly the
\* products whose CSV row has updated_tags different from tags, and the tag
\* array of each is the product's tag list as served, in order, followed
\* by "rosa".
C19_ArtifactAgreesWithUpdates ==
    /\ UpdatesFollowRows
    /\ LiveRunEnded =>
          \A k \in 1..Len(csv) : \A i \in UpdateCallsFor(Products[k].id) :
              calls[i].tags = Append(TaggerNodes[k].tags, T_rosa)

(***************************************************************************)
(* Claims about the count of created definitions                           *)
(***************************************************************************)

\* The definition a needed triple stands for.
DefinitionOf(t) == [namespace |-> t[1], key |-> t[2], type |-> t[3]]

\* C20: the count of created definitions goes up only for a definition
\* whose create call succeeded or, in a dry run, was simulated: not for a
\* needed definition skipped for its restricted namespace, and not for a
\* create call answered with userErrors or not answered at all.  The count
\* starts at zero, so the count reported at the end is then the number of
\* such definitions.
C20_CountsCreatedOnly ==
    [][total'.definitions_created > total.definitions_created =>
          \E t \in pending \ pending' :
              /\ ~IsRestricted(t[1])
              /\ \/ dry_run
                 \/ DefinitionOf(t) \in target'.definitions[OwnerTypeAt(pcImport)]]_vars
====
